---- MODULE Spec2Model ----
(***************************************************************************)
(* A model of dgtlife:navigate 0.8.6: the screen registry, the transition  *)
(* engine (toScreen), the condition waiter, and the browser-mode and       *)
(* app-mode drivers.                                                       *)
(*                                                                         *)
(* JavaScript values are encoded as follows.                               *)
(*   - a missing key / undefined is the string "undef";                    *)
(*   - a data object is a record [k, v]: k = "plain" is a plain object     *)
(*     (v = "empty" is {}), k = "reactiveVar" is a reference to the        *)
(*     module's screenData ReactiveVar, k = "clone" is the plain object    *)
(*     the host's structured clone makes of that ReactiveVar (v is the     *)
(*     value it held), k = "undef" is undefined;                           *)
(*   - a path is a sequence of tokens, "/" being the separator;            *)
(*   - a RegExp is a sequence of tokens, "*" being the group ([^/]+).      *)
(***************************************************************************)
EXTENDS Integers, Sequences, FiniteSets, TLC

VARIABLES
  screens,         \* the array of screen objects
  pathLookup,      \* the array of name-pathPattern pairs
  config,          \* the config object (the keys the code reads)
  currentScreen,   \* ReactiveVar currentScreen
  screenData,      \* ReactiveVar screenData (its current value)
  reactive,        \* ReactiveDict: content helper -> template name
  isLoading,       \* ReactiveVar isLoading
  navStackLength,  \* ReactiveVar navStackLength
  navStack,        \* the navigation stack
  history,         \* the host's session history (entries with their state)
  hpos,            \* index of the host's current history entry
  onRendered,      \* Template[t] onRendered callbacks, in registration order
  comps,           \* live Tracker computations of waitForCondition
  titleComps,      \* live Tracker computations of updateNavStack
  pendingData,     \* getDataFromParams calls whose callback has not fired
  env,             \* identity provider and the reactive sources of conditions
  hookLog,         \* hooks run by the latest transition, in order
  hookSaw,         \* what its before hooks read from screenData, in order
  renderPending,   \* the latest transition's content is not rendered yet
  funcCalls,       \* how often each waiting function has been invoked
  lastCall,        \* the latest operation and its arguments
  lastResult,      \* its outcome: "true", "false", "none" or "error"
  accessLog,       \* evaluations of access control during cold start
  waited,          \* the calls of waitForCondition made by the application
  steps            \* number of operations so far

vars == <<screens, pathLookup, config, currentScreen, screenData, reactive,
          isLoading, navStackLength, navStack, history, hpos, onRendered,
          comps, titleComps, pendingData, env, hookLog, hookSaw,
          renderPending, funcCalls, lastCall, lastResult, accessLog, waited, steps>>

navVars == <<config, currentScreen, screenData, reactive, isLoading,
             navStackLength, navStack, history, hpos, onRendered, comps,
             titleComps, pendingData, env, hookLog, hookSaw, renderPending,
             funcCalls, accessLog, waited>>

(***************************************************************************)
(* Bounds.                                                                 *)
(***************************************************************************)
MaxSteps == 5   \* operations, run included
MaxRegs == 3    \* calls of registerScreen

(***************************************************************************)
(* Values.                                                                 *)
(***************************************************************************)
Undef == "undef"
NoData == [k |-> "undef", v |-> ""]
Plain(d) == [k |-> "plain", v |-> d]
EmptyObject == Plain("empty")
ReactiveVarRef == [k |-> "reactiveVar", v |-> ""]

\* window.history.pushState stores a structured clone of the state object:
\* a ReactiveVar holding d becomes a plain object wrapping d.
StructuredClone(held) ==
  [k |-> "clone", v |-> IF held.k = "plain" THEN held.v ELSE "nested"]

\* check(x, Object): a plain object only, never an instance of a class.
IsPlainObject(d) == d.k \in {"plain", "clone"}

\* if (x): every object is truthy, undefined is not.
Truthy(d) == d.k # "undef"

ContentHelpers == <<"main", "side">>

Range(s) == {s[i] : i \in 1..Len(s)}

(***************************************************************************)
(* pattern.js and the path patterns.                                       *)
(***************************************************************************)
\* The value passed where a screen name is expected by startAppMode's reload
\* branch: the stack entry itself, an object.
StackEntryObject == "[object Object]"

nonEmptyString(x) == x \notin {"", Undef, StackEntryObject}

\* pathPattern.test(path)
PatternTest(pattern, path) ==
  /\ Len(pattern) = Len(path)
  /\ \A i \in 1..Len(pattern) :
       IF pattern[i] = "*" THEN path[i] # "/" ELSE pattern[i] = path[i]

RECURSIVE Captures(_, _, _)
Captures(pattern, path, i) ==
  IF i > Len(pattern) THEN <<>>
  ELSE (IF pattern[i] = "*" THEN <<path[i]>> ELSE <<>>)
         \o Captures(pattern, path, i + 1)

\* pathPattern.exec(path): <<whole match, capture 1, ...>>, <<>> for null
PatternExec(pattern, path) ==
  IF PatternTest(pattern, path) THEN <<path>> \o Captures(pattern, path, 1)
  ELSE <<>>

(***************************************************************************)
(* The screen registry.                                                    *)
(***************************************************************************)
NoPath == <<>>

ScreenOptions(chm, title, path, pathMask, pathPattern, generatePath, getDataFromParams, isAllowed, before, after) ==
  [contentHelperMap |-> chm, title |-> title, path |-> path,
   pathMask |-> pathMask, pathPattern |-> pathPattern,
   generatePath |-> generatePath, getDataFromParams |-> getDataFromParams,
   isAllowed |-> isAllowed, before |-> before, after |-> after]

Map1(h, t) == <<[helper |-> h, template |-> t]>>

\* What the application registers under each name.
Catalogue ==
  [n \in {"Home", "Profile", "Admin", "Secret", "Blank", "Not Found",
          "Access Denied"} |->
    CASE n = "Home" ->
           ScreenOptions(Map1("main", "home"), "str", <<"/">>, NoPath,
                         <<"/">>, FALSE, FALSE, Undef, TRUE, TRUE)
      [] n = "Profile" ->
           ScreenOptions(Map1("main", "profile"), "fn", NoPath,
                         <<"/", "user", "/", ":id">>,
                         <<"/", "user", "/", "*">>, TRUE, TRUE, "fnTrue",
                         TRUE, TRUE)
      [] n = "Admin" ->
           ScreenOptions(Map1("main", "home"), "str", <<"/", "admin">>,
                         NoPath, <<"/", "admin">>, FALSE, FALSE, "fnFalse",
                         TRUE, TRUE)
      [] n = "Secret" ->
           ScreenOptions(Map1("main", "secret"), "str", <<"/", "secret">>,
                         NoPath, <<"/", "secret">>, FALSE, FALSE, "false",
                         TRUE, TRUE)
      [] n = "Blank" ->
           ScreenOptions(<<>>, "str", NoPath, NoPath, NoPath, FALSE, FALSE,
                         Undef, TRUE, TRUE)
      [] n = "Not Found" ->
           ScreenOptions(Map1("main", "not_found"), "str", NoPath, NoPath,
                         NoPath, FALSE, FALSE, Undef, TRUE, TRUE)
      [] OTHER ->
           ScreenOptions(Map1("main", "access_denied"), "str", NoPath,
                         NoPath, NoPath, FALSE, FALSE, Undef, TRUE, TRUE)]

ScreenNames == DOMAIN Catalogue

Templates == {"home", "profile", "secret", "not_found", "access_denied"}

\* _.findWhere(screens, { name: name }): the first match, <<>> for undefined
FindWhere(scr, name) ==
  LET idx == {i \in 1..Len(scr) : scr[i].name = name}
  IN IF idx = {} THEN <<>>
     ELSE <<scr[CHOOSE i \in idx : \A j \in idx : i <= j]>>

getScreen(scr, name) == FindWhere(scr, name)

\* registerScreen without the test for a screen of that name
registerScreenAgain(reg, name, options) ==
  IF \/ ~nonEmptyString(name)
     \/ options.title = Undef
     \/ (options.path # NoPath /\ options.pathPattern = NoPath)
     \/ (options.pathMask # NoPath /\ options.pathPattern = NoPath)
     \/ (options.pathMask # NoPath /\ ~options.generatePath)
     \/ (options.pathMask # NoPath /\ ~options.getDataFromParams)
  THEN [screens |-> reg.screens, pathLookup |-> reg.pathLookup, err |-> TRUE]
  ELSE [screens |-> Append(reg.screens, options @@ [name |-> name]),
        pathLookup |->
          IF options.path # NoPath \/ options.pathMask # NoPath
          THEN Append(reg.pathLookup,
                      [name |-> name, pathPattern |-> options.pathPattern])
          ELSE reg.pathLookup,
        err |-> FALSE]

\* registerScreen(name, options) on the registry reg = [screens, pathLookup];
\* err is TRUE when it throws.
registerScreen(reg, name, options) ==
  IF \/ ~nonEmptyString(name)
     \/ options.title = Undef
     \/ (options.path # NoPath /\ options.pathPattern = NoPath)
     \/ (options.pathMask # NoPath /\ options.pathPattern = NoPath)
     \/ (options.pathMask # NoPath /\ ~options.generatePath)
     \/ (options.pathMask # NoPath /\ ~options.getDataFromParams)
  THEN [screens |-> reg.screens, pathLookup |-> reg.pathLookup, err |-> TRUE]
  ELSE IF getScreen(reg.screens, name) = <<>>
  THEN LET defaulted == IF options.isAllowed \in {Undef, "false"}
                        THEN "true" ELSE options.isAllowed
           screen == [options EXCEPT
                        !.isAllowed = IF options.isAllowed # Undef
                                      THEN options.isAllowed ELSE defaulted]
                     @@ [name |-> name]
       IN [screens |-> Append(reg.screens, screen),
           pathLookup |->
             IF options.path # NoPath \/ options.pathMask # NoPath
             THEN Append(reg.pathLookup,
                         [name |-> name, pathPattern |-> options.pathPattern])
             ELSE reg.pathLookup,
           err |-> FALSE]
  ELSE [screens |-> reg.screens, pathLookup |-> reg.pathLookup, err |-> TRUE]

(***************************************************************************)
(* The program state an operation works on, as one record, and the result  *)
(* of the operation: err = an exception left the operation, ret = the      *)
(* value it returned.                                                      *)
(***************************************************************************)
St ==
  [screens |-> screens, pathLookup |-> pathLookup, env |-> env,
   config |-> config, cur |-> currentScreen, sd |-> screenData,
   reactive |-> reactive, isLoading |-> isLoading,
   navStackLength |-> navStackLength, navStack |-> navStack,
   history |-> history, hpos |-> hpos, onRendered |-> onRendered,
   comps |-> comps, titleComps |-> titleComps, pendingData |-> pendingData,
   hookLog |-> hookLog, hookSaw |-> hookSaw,
   renderPending |-> renderPending,
   funcCalls |-> funcCalls, accessLog |-> accessLog,
   err |-> FALSE, ret |-> "none"]

Throw(S) == [S EXCEPT !.err = TRUE, !.ret = "error"]
Return(S, v) == [S EXCEPT !.ret = v]

\* toScreen's options object
Options(given, hist, stack, sd) ==
  [given |-> given, shouldUpdateBrowserHistory |-> hist,
   shouldUpdateNavStack |-> stack, screenData |-> sd]

NoOptions == Options(FALSE, Undef, Undef, NoData)

Hook(h, s) == [h |-> h, s |-> s]

\* inAppMode()
inAppMode(cfg) == cfg.inAppModeOnIos \/ cfg.inAppModeOnAndroid

\* window.history.state
HistoryState(S) == S.history[S.hpos]

\* screenData.params: a plain data object carries its parameters, the
\* ReactiveVar and its clone have no such key.
Params(d) == IF d.k = "plain" /\ d.v # "empty" THEN d.v ELSE Undef

\* The application's generatePath(mask, params).
GeneratePath(mask, params) ==
  [i \in DOMAIN mask |-> IF mask[i] = ":id" THEN params ELSE mask[i]]

\* updateBrowserHistory(name, path, pathMask, generatePath, screenData)
\* sdArg is the argument the caller passes as screenData.
updateBrowserHistory(S, name, path, pathMask, sdArg) ==
  LET state == HistoryState(S)
      sid == IF ~state.hasState THEN 1 ELSE 1 + state.sid
      stored == IF sdArg.k = "reactiveVar" THEN StructuredClone(S.sd)
                ELSE sdArg
      params == IF Truthy(sdArg) THEN Params(sdArg) ELSE Undef
      url == IF pathMask # NoPath /\ params # Undef /\ path = NoPath
             THEN GeneratePath(pathMask, params)
             ELSE IF path # NoPath THEN path ELSE state.path
      entry == [hasState |-> TRUE, sid |-> sid, name |-> name,
                screenData |-> IF Truthy(sdArg) THEN stored ELSE NoData,
                path |-> url]
  IN [S EXCEPT !.history = Append(SubSeq(S.history, 1, S.hpos), entry),
               !.hpos = S.hpos + 1]

\* updateNavStack(name, title, screenData); a title function returns a
\* title once env.titleReady, and nothing before.
updateNavStack(S, name, title, sdArg) ==
  IF inAppMode(S.config)
  THEN LET screenState == [name |-> name,
                           screenData |-> IF Truthy(sdArg) THEN sdArg
                                          ELSE NoData,
                           title |-> Undef]
           pushed == Append(S.navStack, [screenState EXCEPT !.title = name])
       IN IF title = "fn" /\ ~S.env.titleReady
          THEN [S EXCEPT !.titleComps = Append(S.titleComps, screenState)]
          ELSE [S EXCEPT !.navStack = pushed,
                         !.navStackLength = Len(pushed)]
  ELSE S

\* ClearPrevious leaving the screen data of the previous screen in place
ClearPreviousKeepData(S) ==
  [S EXCEPT
     !.reactive = [h \in DOMAIN S.reactive |->
                     IF h \in Range(S.config.contentHelpers)
                     THEN "null" ELSE S.reactive[h]],
     !.hookLog = <<>>,
     !.hookSaw = <<>>,
     !.renderPending = FALSE]

\* toScreen, lines 163-173: the content helpers and the screen data of the
\* previous screen are cleared.
ClearPrevious(S) ==
  [S EXCEPT
     !.reactive = [h \in DOMAIN S.reactive |->
                     IF h \in Range(S.config.contentHelpers)
                     THEN "null" ELSE S.reactive[h]],
     !.sd = EmptyObject,
     !.hookLog = <<>>,
     !.hookSaw = <<>>,
     !.renderPending = FALSE]

\* toScreen, lines 175-189: the global before hook, the screen data of the
\* new screen, the screen's before hook.
RunBefore(S, screen, options) ==
  [S EXCEPT
     !.sd = IF options.given /\ Truthy(options.screenData)
            THEN options.screenData ELSE S.sd,
     !.hookLog =
        (IF S.config.beforeScreens
         THEN <<Hook("beforeScreens", screen.name)>> ELSE <<>>)
        \o (IF screen.before THEN <<Hook("before", screen.name)>>
            ELSE <<>>),
     !.hookSaw =
        (IF S.config.beforeScreens THEN <<S.sd>> ELSE <<>>)
        \o (IF ~screen.before THEN <<>>
            ELSE IF options.given /\ Truthy(options.screenData)
            THEN <<options.screenData>> ELSE <<S.sd>>)]

\* toScreen, lines 195-236: the onRendered callback is added to the first
\* content template, the content helpers are mapped, the screen is current.
GoTo(S, screen) ==
  LET chm == screen.contentHelperMap
  IN [S EXCEPT
        !.onRendered[chm[1].template] =
           Append(S.onRendered[chm[1].template], screen.name),
        !.reactive = [h \in DOMAIN S.reactive |->
           LET ms == {i \in 1..Len(chm) : chm[i].helper = h}
           IN IF ms = {} THEN S.reactive[h]
              ELSE chm[CHOOSE i \in ms : \A j \in ms : j <= i].template],
        !.cur = screen.name,
        !.renderPending = TRUE]

\* toScreen, lines 238-252
RecordHistory(S, screen, options) ==
  LET shouldUpdateBrowserHistory ==
        IF options.given /\ options.shouldUpdateBrowserHistory # Undef
        THEN options.shouldUpdateBrowserHistory = "true" ELSE TRUE
  IN IF shouldUpdateBrowserHistory
     THEN updateBrowserHistory(S, screen.name, screen.path, screen.pathMask,
                               ReactiveVarRef)
     ELSE S

\* toScreen, lines 254-267
RecordNavStack(S, screen, options) ==
  LET shouldUpdateNavStack ==
        IF options.given /\ options.shouldUpdateNavStack # Undef
        THEN options.shouldUpdateNavStack = "true" ELSE TRUE
  IN IF shouldUpdateNavStack
     THEN updateNavStack(S, screen.name, screen.title, ReactiveVarRef)
     ELSE S

\* toScreen from line 195 on; contentHelperMap[0] of an empty map is
\* undefined, and reading its template throws.
Enter(S, screen, options) ==
  IF Len(screen.contentHelperMap) = 0 THEN Throw(S)
  ELSE Return(RecordNavStack(RecordHistory(GoTo(S, screen), screen, options),
                             screen, options),
              "true")

\* The screen transition proper: lines 163-267 of toScreen, for a screen
\* that exists and is not the current one, with valid options.
Transition(S, screen, options) ==
  Enter(RunBefore(ClearPrevious(S), screen, options), screen, options)

\* toScreen without the early return for the screen that is current
toScreenAgain(S, name, options) ==
  IF ~nonEmptyString(name) THEN Throw(S)
  ELSE IF FindWhere(S.screens, name) = <<>> THEN Throw(S)
  ELSE IF options.given /\ Truthy(options.screenData)
          /\ ~IsPlainObject(options.screenData)
  THEN Throw(S)
  ELSE Transition(S, FindWhere(S.screens, name)[1], options)

\* toScreen clearing the previous screen before it looks the screen up
toScreenClearFirst(S, name, options) ==
  IF ~nonEmptyString(name) THEN Throw(S)
  ELSE IF FindWhere(S.screens, name) = <<>> THEN Throw(ClearPrevious(S))
  ELSE IF S.cur = name THEN Return(S, "false")
  ELSE IF options.given /\ Truthy(options.screenData)
          /\ ~IsPlainObject(options.screenData)
  THEN Throw(S)
  ELSE Transition(S, FindWhere(S.screens, name)[1], options)

\* toScreen(name, options)
toScreen(S, name, options) ==
  IF ~nonEmptyString(name) THEN Throw(S)
  ELSE LET found == FindWhere(S.screens, name)
       IN IF found = <<>> THEN Throw(S)
          ELSE IF S.cur = name THEN Return(S, "false")
          ELSE IF options.given /\ Truthy(options.screenData)
                  /\ ~IsPlainObject(options.screenData)
          THEN Throw(S)
          ELSE Transition(S, found[1], options)

(***************************************************************************)
(* The condition waiter.  A waiting function is a record: kind "user" is a *)
(* function of the caller (funcCalls counts its invocations), the other    *)
(* kinds are the closures the drivers pass.                                *)
(***************************************************************************)
Func(kind, id, name, options, isAllowed) ==
  [kind |-> kind, id |-> id, name |-> name, options |-> options,
   isAllowed |-> isAllowed]

UserFunc(id) == Func("user", id, "", NoOptions, Undef)
ToScreenFunc(name, options) == Func("toScreen", 0, name, options, Undef)

\* conditionSatisfied(): Meteor.user, or every predicate of the condition id
\* (the application's lists hold one predicate each, reading env).
conditionSatisfied(S, condition) ==
  CASE condition = "Meteor.user" -> S.env.userReady
    [] condition = "okToLoad" -> S.env.okToLoad
    [] condition = "okToReload" -> S.env.okToReload
    [] OTHER -> FALSE

ConditionIds == {"okToLoad", "okToReload"}

RECURSIVE waitForCondition(_, _, _, _, _)
RECURSIVE CallFunc(_, _)

\* loadTargetScreenInBrowserMode(screenSpec); options = _.omit(spec, 'name')
loadTargetScreenInBrowserMode(S, name, data) ==
  LET options == Options(TRUE, Undef, Undef, data)
  IN IF HistoryState(S).hasState
     THEN IF name = HistoryState(S).name
          THEN waitForCondition(S, "okToReload",
                 ToScreenFunc(name, [options EXCEPT
                                 !.shouldUpdateBrowserHistory = "false"]),
                 Undef, Undef)
          ELSE toScreen(S, name, options)
     ELSE waitForCondition(S, "okToLoad", ToScreenFunc(name, options),
                           Undef, Undef)

\* applyAccessControl loading the target whatever isAllowed says
applyAccessControlAlways(S, name, data, isAllowed) ==
  loadTargetScreenInBrowserMode(S, name, data)

\* applyAccessControl(screenSpec, isAllowed)
applyAccessControl(S, name, data, isAllowed) ==
  IF isAllowed THEN loadTargetScreenInBrowserMode(S, name, data)
  ELSE toScreen(S, "Access Denied", NoOptions)

\* isAllowed(): the application's access control function is evaluated
\* (accessLog records when), and its result applied.
EvalAccess(S, name, data, isAllowed) ==
  applyAccessControl(
    [S EXCEPT !.accessLog =
        Append(S.accessLog, [name |-> name, userReady |-> S.env.userReady])],
    name, data, isAllowed = "fnTrue")

\* isScreenAllowed(screenSpec)
isScreenAllowed(S, name, data, isAllowed) ==
  IF isAllowed \in {"fnTrue", "fnFalse"}
  THEN IF S.env.userId
       THEN IF S.env.userReady
            THEN EvalAccess(S, name, data, isAllowed)
            ELSE waitForCondition(S, "Meteor.user",
                   Func("applyAccess", 0, name,
                        Options(TRUE, Undef, Undef, data), isAllowed),
                   Undef, Undef)
       ELSE EvalAccess(S, name, data, isAllowed)
  ELSE applyAccessControl(S, name, data, isAllowed = "true")

\* func(): the call of a waiting function
CallFunc(S, f) ==
  CASE f.kind = "user" ->
         [S EXCEPT !.funcCalls[f.id] = S.funcCalls[f.id] + 1]
    [] f.kind = "toScreen" -> toScreen(S, f.name, f.options)
    [] f.kind = "okToLoadThenToScreen" ->
         waitForCondition(S, "okToLoad", ToScreenFunc(f.name, NoOptions),
                          Undef, Undef)
    [] OTHER -> EvalAccess(S, f.name, f.options.screenData, f.isAllowed)

\* waitForCondition, lines 573-582: after func() has returned in state S
AfterFunc(S, c) ==
  IF S.err THEN [S |-> S, stopped |-> FALSE]
  ELSE IF c.context = Undef THEN [S |-> S, stopped |-> TRUE]
  ELSE \* func().bind(context): func returns undefined
       [S |-> Throw(S), stopped |-> FALSE]

\* One run of the function waitForCondition gives to Tracker.autorun, for
\* the computation c.  stopped: comp.stop() was reached.
Compute(S, c) ==
  IF ~conditionSatisfied(S, c.condition)
  THEN [S |-> IF c.showLoading = "true"
              THEN [S EXCEPT !.isLoading = TRUE,
                             !.reactive[S.config.contentHelpers[1]] =
                                "loading"]
              ELSE S,
        stopped |-> FALSE]
  ELSE AfterFunc(CallFunc(IF c.showLoading = "true"
                          THEN [S EXCEPT !.isLoading = FALSE] ELSE S,
                          c.func),
                 c)

\* Tracker.autorun with a new computation taking the place of the live ones
AfterFirstRunSuperseding(S, c, R) ==
  IF R.S.err \/ R.stopped
  THEN [R.S EXCEPT
          !.comps = S.comps,
          !.titleComps = SubSeq(R.S.titleComps, 1, Len(S.titleComps))]
  ELSE [R.S EXCEPT !.comps = <<c>>]

\* Tracker.autorun after the first run R of the computation c, created in
\* state S: a first run that throws stops the computation and rethrows; a
\* computation that stops takes the computations created inside it with it.
AfterFirstRun(S, c, R) ==
  IF R.S.err \/ R.stopped
  THEN [R.S EXCEPT
          !.comps = S.comps,
          !.titleComps = SubSeq(R.S.titleComps, 1, Len(S.titleComps))]
  ELSE [R.S EXCEPT !.comps = Append(R.S.comps, c)]

Computation(condition, func, showLoading, context) ==
  [condition |-> condition, func |-> func, showLoading |-> showLoading,
   context |-> context]

\* waitForCondition(condition, func, showLoading, context): the checks, then
\* Tracker.autorun, whose first run is immediate.
waitForCondition(S, condition, func, showLoading, context) ==
  IF \/ ~nonEmptyString(condition)
     \/ showLoading \notin {"true", "false"}
     \/ (condition # "Meteor.user" /\ condition \notin ConditionIds)
  THEN Throw(S)
  ELSE AfterFirstRun(S, Computation(condition, func, showLoading, context),
         Compute(S, Computation(condition, func, showLoading, context)))

\* A flush after the reactive source of `condition` changed: every live
\* computation that read it runs again, in creation order.  An exception in
\* a rerun is logged by Tracker, and the computation stays.
RECURSIVE Rerun(_, _, _, _)

\* The rerun R of the computation Head(todo), started in state S
AfterRerun(S, condition, todo, kept, R) ==
  IF R.stopped
  THEN Rerun([R.S EXCEPT
                !.comps = S.comps,
                !.titleComps = SubSeq(R.S.titleComps, 1, Len(S.titleComps))],
             condition, Tail(todo), kept)
  ELSE Rerun([R.S EXCEPT !.err = FALSE, !.ret = "none"],
             condition, Tail(todo), Append(kept, Head(todo)))

Rerun(S, condition, todo, kept) ==
  IF todo = <<>> THEN [S EXCEPT !.comps = kept \o S.comps]
  ELSE IF Head(todo).condition # condition
  THEN Rerun(S, condition, Tail(todo), Append(kept, Head(todo)))
  ELSE AfterRerun(S, condition, todo, kept, Compute(S, Head(todo)))

Flush(S, condition) ==
  Rerun([S EXCEPT !.comps = <<>>], condition, S.comps, <<>>)

\* The flush after a title function's source changed: every pending title
\* computation of updateNavStack pushes its entry and stops.
RECURSIVE FlushTitles(_)
FlushTitles(S) ==
  IF S.titleComps = <<>> \/ ~S.env.titleReady THEN S
  ELSE FlushTitles(
         [S EXCEPT
            !.titleComps = Tail(S.titleComps),
            !.navStack = Append(S.navStack,
                           [Head(S.titleComps) EXCEPT
                              !.title = Head(S.titleComps).name]),
            !.navStackLength = Len(S.navStack) + 1])

(***************************************************************************)
(* The browser-mode driver.                                                *)
(***************************************************************************)
\* retrieveScreenData(execResult, screenSpec): getDataFromParams is called,
\* and answers through its callback later.
retrieveScreenData(S, execResult, name, isAllowed, getDataFromParams) ==
  IF ~getDataFromParams THEN Throw(S)
  ELSE [S EXCEPT !.pendingData =
          Append(S.pendingData, [name |-> name, isAllowed |-> isAllowed,
                                 execResult |-> execResult])]

\* The callback retrieveScreenData gives to getDataFromParams.  The
\* application's getDataFromParams answers { params } of the first capture.
dataCallback(S, p, error) ==
  IF ~error
  THEN isScreenAllowed(S, p.name, Plain(p.execResult[2]), p.isAllowed)
  ELSE Throw(S)

\* checkForPathParameters going to access control whatever exec returns
checkForPathParametersNoData(S, registeredPath, path) ==
  isScreenAllowed(S, registeredPath.name, NoData,
                  FindWhere(S.screens, registeredPath.name)[1].isAllowed)

\* checkForPathParameters(registeredPath, path)
checkForPathParameters(S, registeredPath, path) ==
  LET screen == FindWhere(S.screens, registeredPath.name)[1]
      execResult == PatternExec(registeredPath.pathPattern, path)
  IN IF Len(execResult) = 1
     THEN isScreenAllowed(S, screen.name, NoData, screen.isAllowed)
     ELSE retrieveScreenData(S, execResult, screen.name, screen.isAllowed,
                             screen.getDataFromParams)

\* findPathPatternMatch(path)
findPathPatternMatch(S, path) ==
  LET idx == {i \in 1..Len(S.pathLookup) :
                PatternTest(S.pathLookup[i].pathPattern, path)}
  IN IF idx # {}
     THEN checkForPathParameters(
            S, S.pathLookup[CHOOSE i \in idx : \A j \in idx : i <= j], path)
     ELSE toScreen(S, "Not Found", NoOptions)

\* accountForTrailingSlash(path)
accountForTrailingSlash(cfg, path) ==
  IF path = <<"/">> THEN path
  ELSE IF path[Len(path)] = "/" /\ cfg.ignoreTrailingSlash
  THEN SubSeq(path, 1, Len(path) - 1)
  ELSE path

\* startBrowserMode(path)
startBrowserMode(S, path) ==
  findPathPatternMatch(S, accountForTrailingSlash(S.config, path))

\* The popstate listener of handleBrowserBackAndForward, for event.state
popstateListener(S, state) ==
  IF state.hasState
  THEN toScreen(S, state.name,
                Options(TRUE, "false", Undef,
                        IF Truthy(state.screenData) THEN state.screenData
                        ELSE NoData))
  ELSE S

(***************************************************************************)
(* The app-mode driver.                                                    *)
(***************************************************************************)
\* startAppMode(publicHome, userHome)
startAppMode(S, publicHome, userHome) ==
  IF Len(S.navStack) = 0
  THEN IF S.env.userId
       THEN waitForCondition(S, "Meteor.user",
              Func("okToLoadThenToScreen", 0, userHome, NoOptions, Undef),
              Undef, Undef)
       ELSE waitForCondition(S, "okToLoad",
                             ToScreenFunc(publicHome, NoOptions), Undef, Undef)
  ELSE toScreen(S, StackEntryObject, Options(TRUE, Undef, "false", NoData))

\* resetNavStack(name)
resetNavStack(S, name) ==
  IF inAppMode(S.config)
  THEN toScreen([S EXCEPT !.navStack = <<>>], name, NoOptions)
  ELSE S

\* toHome()
toHome(S) ==
  IF inAppMode(S.config) THEN resetNavStack(S, "Home")
  ELSE toScreen(S, "Home", NoOptions)

\* back() in browser mode: window.history.back() makes the host move one
\* entry back, if there is one, and dispatch popstate; back returns true.
HostBack(S) ==
  IF S.hpos > 1
  THEN IF S.config.listening
       THEN popstateListener([S EXCEPT !.hpos = S.hpos - 1],
                             S.history[S.hpos - 1])
       ELSE [S EXCEPT !.hpos = S.hpos - 1]
  ELSE S

\* back(), lines 641-654, in state S after the pop
ToPrevious(S) ==
  IF S.navStack = <<>> THEN Throw(S)
  ELSE toScreen(S, S.navStack[Len(S.navStack)].name,
                Options(TRUE, Undef, "false",
                        S.navStack[Len(S.navStack)].screenData))

ReturnTrue(R) == IF R.err THEN R ELSE Return(R, "true")

\* back()
back(S) ==
  IF S.config.supportUrls
  THEN [HostBack(S) EXCEPT !.err = FALSE, !.ret = "true"]
  ELSE IF Len(S.navStack) = 1 THEN Return(S, "false")
  ELSE ReturnTrue(ToPrevious(
         [S EXCEPT
            !.navStack = SubSeq(S.navStack, 1, Len(S.navStack) - 1),
            !.navStackLength = IF S.navStack = <<>> THEN 0
                               ELSE Len(S.navStack) - 1]))

\* run(options): setConfig, then the branch on the mode
run(S, options) ==
  LET set == [S.config EXCEPT
                !.contentHelpers = options.contentHelpers,
                !.inAppModeOnIos = options.inAppModeOnIos,
                !.appModeUserHome = options.appModeUserHome,
                !.beforeScreens = options.beforeScreens,
                !.afterScreens = options.afterScreens,
                !.started = TRUE]
  IN IF inAppMode(set)
     THEN startAppMode(
            [S EXCEPT !.config = [set EXCEPT
                                    !.supportUrls = FALSE,
                                    !.useBrowserBackAndForward = FALSE]],
            set.appModePublicHome, set.appModeUserHome)
     ELSE startBrowserMode(
            [S EXCEPT !.config =
               [set EXCEPT !.listening = set.useBrowserBackAndForward]],
            HistoryState(S).path)

(***************************************************************************)
(* Rendering (the collaborator): once the content of the current screen is *)
(* rendered, every onRendered callback registered on a rendered template   *)
(* runs: the after hook of the screen that registered it, then the global  *)
(* after hook.                                                             *)
(***************************************************************************)
RECURSIVE RunCallbacks(_, _, _)
RunCallbacks(S, callbacks, log) ==
  IF callbacks = <<>> THEN log
  ELSE LET screen == FindWhere(S.screens, Head(callbacks))[1]
           l1 == IF screen.after
                 THEN Append(log, Hook("after", screen.name)) ELSE log
           l2 == IF S.config.afterScreens
                 THEN Append(l1, Hook("afterScreens", screen.name)) ELSE l1
       IN RunCallbacks(S, Tail(callbacks), l2)

RECURSIVE RenderTemplates(_, _, _)
RenderTemplates(S, chm, log) ==
  IF chm = <<>> THEN log
  ELSE RenderTemplates(S, Tail(chm),
         RunCallbacks(S, S.onRendered[Head(chm).template], log))

rendered(S) ==
  [S EXCEPT
     !.renderPending = FALSE,
     !.hookLog = RenderTemplates(S,
                   FindWhere(S.screens, S.cur)[1].contentHelperMap,
                   Append(S.hookLog, Hook("rendered", S.cur)))]

(***************************************************************************)
(* Initial states.                                                         *)
(***************************************************************************)
RECURSIVE RegisterAll(_, _)
RegisterAll(reg, names) ==
  IF names = <<>> THEN reg
  ELSE RegisterAll(registerScreen(reg, Head(names), Catalogue[Head(names)]),
                   Tail(names))

EmptyRegistry == [screens |-> <<>>, pathLookup |-> <<>>, err |-> FALSE]

\* The registrations an application makes before it calls run: with and
\* without screens named 'Not Found' and 'Access Denied'.
AppScreens == <<"Home", "Profile", "Admin", "Secret", "Blank">>
FullRegistration == AppScreens \o <<"Not Found", "Access Denied">>

FuncIds == {1, 2}

FreshEntry(path) ==
  [hasState |-> FALSE, sid |-> 0, name |-> "", screenData |-> NoData,
   path |-> path]

\* The entry of a tab that is reloaded: the state the previous page life
\* pushed for the screen `name`.
ReloadEntry(name, path) ==
  [hasState |-> TRUE, sid |-> 1, name |-> name,
   screenData |-> StructuredClone(EmptyObject), path |-> path]

DefaultConfig ==
  [contentHelpers |-> <<>>, supportUrls |-> TRUE,
   ignoreTrailingSlash |-> TRUE, useBrowserBackAndForward |-> TRUE,
   inAppModeOnIos |-> FALSE, inAppModeOnAndroid |-> FALSE,
   appModePublicHome |-> "Home", appModeUserHome |-> "Home",
   beforeScreens |-> FALSE, afterScreens |-> FALSE,
   started |-> FALSE,      \* run has been called
   listening |-> FALSE]    \* the popstate listener is registered

Call(op, name, options) == [op |-> op, name |-> name, options |-> options]

InitProgram ==
  /\ config = DefaultConfig
  /\ currentScreen = "null"
  /\ screenData = EmptyObject
  /\ reactive = [h \in Range(ContentHelpers) |-> "null"]
  /\ isLoading = FALSE
  /\ navStackLength = 0
  /\ navStack = <<>>
  /\ history = <<FreshEntry(<<"/">>)>>
  /\ hpos = 1
  /\ onRendered = [t \in Templates |-> <<>>]
  /\ comps = <<>>
  /\ titleComps = <<>>
  /\ pendingData = <<>>
  /\ hookLog = <<>>
  /\ hookSaw = <<>>
  /\ renderPending = FALSE
  /\ funcCalls = [i \in FuncIds |-> 0]
  /\ lastCall = Call("none", "", NoOptions)
  /\ lastResult = "none"
  /\ accessLog = <<>>
  /\ waited = <<>>
  /\ steps = 0

InitEnv ==
  env = [userId |-> FALSE, userReady |-> FALSE, okToLoad |-> FALSE,
         okToReload |-> FALSE, titleReady |-> FALSE]

InitRegistry(names) ==
  LET reg == RegisterAll(EmptyRegistry, names)
  IN screens = reg.screens /\ pathLookup = reg.pathLookup

\* The application has registered all its screens.
Init == InitProgram /\ InitEnv /\ InitRegistry(FullRegistration)

\* The application may have registered no 'Not Found' and no 'Access
\* Denied' screen.
InitStart ==
  /\ InitProgram
  /\ InitEnv
  /\ \E names \in {AppScreens, FullRegistration} : InitRegistry(names)

\* Nothing is registered yet.
InitReg == InitProgram /\ InitEnv /\ InitRegistry(<<>>)

(***************************************************************************)
(* Actions.                                                                *)
(***************************************************************************)
\* The state after an operation that ended in R.
Apply(R, call) ==
  /\ config' = R.config
  /\ env' = R.env
  /\ currentScreen' = R.cur
  /\ screenData' = R.sd
  /\ reactive' = R.reactive
  /\ isLoading' = R.isLoading
  /\ navStackLength' = R.navStackLength
  /\ navStack' = R.navStack
  /\ history' = R.history
  /\ hpos' = R.hpos
  /\ onRendered' = R.onRendered
  /\ comps' = R.comps
  /\ titleComps' = R.titleComps
  /\ pendingData' = R.pendingData
  /\ hookLog' = R.hookLog
  /\ hookSaw' = R.hookSaw
  /\ renderPending' = R.renderPending
  /\ funcCalls' = R.funcCalls
  /\ accessLog' = R.accessLog
  /\ lastCall' = call
  /\ lastResult' = R.ret
  /\ steps' = steps + 1
  /\ waited' = IF call.op = "waitForCondition"
               THEN Append(waited, [call |-> call.options,
                                    satisfied |->
                                      conditionSatisfied(St, call.name)])
               ELSE waited
  /\ UNCHANGED <<screens, pathLookup>>

RunOptions(inApp) ==
  [contentHelpers |-> ContentHelpers, inAppModeOnIos |-> inApp,
   appModeUserHome |-> "Profile", beforeScreens |-> TRUE,
   afterScreens |-> TRUE]

Paths ==
  {<<"/">>, <<"/", "admin", "/">>, <<"/", "secret">>,
   <<"/", "user", "/", "42">>, <<"/", "unknown">>}

\* The tab's entry when the page loads: its URL, and the state a previous
\* page life left in it, if any.
LoadEntries ==
  {FreshEntry(p) : p \in Paths}
    \cup {ReloadEntry("Home", <<"/">>), ReloadEntry("Profile", <<"/">>),
          ReloadEntry("Home", <<"/", "user", "/", "42">>),
          ReloadEntry("Home", <<"/", "secret">>)}

\* Nav.run(options) when the page has loaded, in a session that is
\* identified (uid) or anonymous
Run(inApp, uid, entry) ==
  /\ ~config.started
  /\ inApp => entry = FreshEntry(<<"/">>)
  /\ Apply(run([St EXCEPT !.history = <<entry>>, !.env.userId = uid],
               RunOptions(inApp)),
           Call("run", "", NoOptions))

\* Nav.run(options) again in a running app-mode session (a live reload):
\* the navigation stack is what the session has left in it.
RunAgain ==
  /\ config.started
  /\ inAppMode(config)
  /\ steps < MaxSteps
  /\ Apply(run(St, RunOptions(TRUE)), Call("run", "", NoOptions))

\* The calls of toScreen the application makes; 'Ghost' is not registered.
NavCalls ==
  {<<"Home", NoOptions>>, <<"Profile", NoOptions>>,
   <<"Profile", Options(TRUE, Undef, Undef, Plain("7"))>>,
   <<"Admin", NoOptions>>,
   <<"Admin", Options(TRUE, "false", "false", NoData)>>,
   <<"Blank", NoOptions>>, <<"Ghost", NoOptions>>}

\* Nav.toScreen(name, options), also what a click on a nav link does
ToScreen(name, options) ==
  /\ config.started
  /\ steps < MaxSteps
  /\ Apply(toScreen(St, name, options), Call("toScreen", name, options))

\* Nav.back()
Back ==
  /\ config.started
  /\ steps < MaxSteps
  /\ Apply(back(St), Call("back", "", NoOptions))

\* Nav.resetNavStack(name)
ResetNavStack(name) ==
  /\ config.started
  /\ steps < MaxSteps
  /\ Apply(resetNavStack(St, name), Call("resetNavStack", name, NoOptions))

\* Nav.toHome()
ToHome ==
  /\ config.started
  /\ steps < MaxSteps
  /\ Apply(toHome(St), Call("toHome", "", NoOptions))

\* The user presses the host's Back (-1) or Forward (+1) button.
HostTraverse(delta) ==
  /\ config.started
  /\ ~inAppMode(config)
  /\ steps < MaxSteps
  /\ hpos + delta \in 1..Len(history)
  /\ LET moved == [St EXCEPT !.hpos = hpos + delta]
     IN Apply(IF config.listening
              THEN popstateListener(moved, HistoryState(moved)) ELSE moved,
              Call("popstate", "", NoOptions))

\* getDataFromParams answers through its callback.
DeliverData(error) ==
  /\ pendingData # <<>>
  /\ steps < MaxSteps
  /\ Apply(dataCallback([St EXCEPT !.pendingData = Tail(pendingData)],
                        Head(pendingData), error),
           Call(IF error THEN "dataCallbackError" ELSE "dataCallback",
                Head(pendingData).name, NoOptions))

\* The calls <<condition, f, showLoading, context>> the application makes;
\* f = 1 is passed with two arguments only.
TwoArguments == <<"okToLoad", 1, Undef, Undef>>

WaitCalls ==
  {TwoArguments, <<"okToLoad", 1, "false", Undef>>,
   <<"okToLoad", 2, "true", Undef>>,
   <<"okToReload", 2, "true", Undef>>, <<"okToLoad", 2, "false", "obj">>}

\* waitForCondition(condition, f, showLoading, context) with a function f
\* of the caller
WaitForCondition(w) ==
  /\ config.started
  /\ steps < MaxSteps
  /\ Apply(waitForCondition(St, w[1], UserFunc(w[2]), w[3], w[4]),
           Call("waitForCondition", w[1], w))

\* A reactive source changes, and Tracker flushes.
EnvChange(source) ==
  /\ config.started
  /\ steps < MaxSteps
  /\ LET e == CASE source = "okToLoad" ->
                     [env EXCEPT !.okToLoad = ~env.okToLoad]
                [] source = "okToReload" ->
                     [env EXCEPT !.okToReload = ~env.okToReload]
                [] source = "Meteor.user" ->
                     [env EXCEPT !.userReady = ~env.userReady]
                [] OTHER -> [env EXCEPT !.titleReady = ~env.titleReady]
         S == [St EXCEPT !.env = e]
     IN /\ source = "Meteor.user" => env.userId
        /\ Apply(IF source = "title" THEN FlushTitles(S)
                 ELSE Flush(S, source),
                 Call("change", source, NoOptions))

\* The content of the current screen has been rendered.
Render ==
  /\ renderPending
  /\ LET R == rendered(St)
     IN /\ hookLog' = R.hookLog
        /\ renderPending' = R.renderPending
  /\ UNCHANGED <<screens, pathLookup, config, currentScreen, screenData,
                 reactive, isLoading, navStackLength, navStack, history,
                 hpos, onRendered, comps, titleComps, pendingData, env,
                 hookSaw, funcCalls, lastCall, lastResult, accessLog, waited, steps>>

(***************************************************************************)
(* Registration, before run.                                               *)
(***************************************************************************)
\* What a registration may get wrong: a missing pathPattern, generatePath or
\* getDataFromParams, a missing title, an empty name.
RegVariants == {"ok", "noPattern", "noGenerate", "noResolver", "noTitle"}

RegOptions(name, variant) ==
  LET o == Catalogue[name]
  IN CASE variant = "noPattern" -> [o EXCEPT !.pathPattern = NoPath]
       [] variant = "noGenerate" -> [o EXCEPT !.generatePath = FALSE]
       [] variant = "noResolver" -> [o EXCEPT !.getDataFromParams = FALSE]
       [] variant = "noTitle" -> [o EXCEPT !.title = Undef]
       [] OTHER -> o

RegNames == {"Home", "Profile", "Admin", "Not Found"}

\* Nav.registerScreen(name, options)
RegisterScreen(name, options) ==
  /\ steps < MaxRegs
  /\ LET R == registerScreen([screens |-> screens, pathLookup |-> pathLookup],
                             name, options)
     IN /\ screens' = R.screens
        /\ pathLookup' = R.pathLookup
        /\ lastResult' = IF R.err THEN "error" ELSE "none"
  /\ lastCall' = Call("registerScreen", name, options)
  /\ steps' = steps + 1
  /\ UNCHANGED navVars

NextReg ==
  \E name \in RegNames, variant \in RegVariants :
    RegisterScreen(name, RegOptions(name, variant))

SpecReg == InitReg /\ [][NextReg]_vars

(***************************************************************************)
(* Navigation in a running session.                                        *)
(***************************************************************************)
Next ==
  \/ \E inApp \in BOOLEAN : Run(inApp, FALSE, FreshEntry(<<"/">>))
  \/ \E c \in NavCalls : ToScreen(c[1], c[2])
  \/ Back
  \/ \E name \in {"Home", "Profile"} : ResetNavStack(name)
  \/ ToHome
  \/ \E delta \in {-1, 1} : HostTraverse(delta)
  \/ EnvChange("title")
  \/ Render

Spec == Init /\ [][Next]_vars

(***************************************************************************)
(* Cold start.                                                             *)
(***************************************************************************)
NextStart ==
  \/ \E inApp \in BOOLEAN, uid \in BOOLEAN, entry \in LoadEntries :
       Run(inApp, uid, entry)
  \/ \E error \in BOOLEAN : DeliverData(error)
  \/ \E source \in {"okToLoad", "okToReload", "Meteor.user"} :
       EnvChange(source)
  \/ Render

SpecStart == InitStart /\ [][NextStart]_vars

(***************************************************************************)
(* The condition waiter on its own.                                        *)
(***************************************************************************)
NextWait ==
  \/ \E inApp \in BOOLEAN : Run(inApp, TRUE, FreshEntry(<<"/", "unknown">>))
  \/ \E w \in WaitCalls : WaitForCondition(w)
  \/ \E source \in {"okToLoad", "okToReload", "Meteor.user"} :
       EnvChange(source)

SpecWait == Init /\ [][NextWait]_vars

(***************************************************************************)
(* Navigation in an app-mode session, with toScreen's default options.     *)
(***************************************************************************)
DefaultCalls == {c \in NavCalls : ~c[2].given \/ Truthy(c[2].screenData)}

NextApp ==
  \/ Run(TRUE, FALSE, FreshEntry(<<"/">>))
  \/ RunAgain
  \/ \E c \in DefaultCalls : ToScreen(c[1], c[2])
  \/ Back
  \/ \E name \in {"Home", "Profile"} : ResetNavStack(name)
  \/ ToHome
  \/ EnvChange("title")
  \/ Render

SpecApp == Init /\ [][NextApp]_vars

(***************************************************************************)
(* Cold starts followed by navigation calls of the application.            *)
(***************************************************************************)
NextAccess ==
  \/ \E inApp \in BOOLEAN, uid \in BOOLEAN, entry \in LoadEntries :
       Run(inApp, uid, entry)
  \/ \E error \in BOOLEAN : DeliverData(error)
  \/ \E source \in {"okToLoad", "okToReload", "Meteor.user"} :
       EnvChange(source)
  \/ \E name \in {"Home", "Admin"} : ToScreen(name, NoOptions)
  \/ \E delta \in {-1, 1} : HostTraverse(delta)

SpecAccess == InitStart /\ [][NextAccess]_vars

(***************************************************************************)
(* The claims.                                                             *)
(***************************************************************************)
Registered(name) == FindWhere(screens, name) # <<>>

\* The step is a call of the operation op.
IsCall(op) == steps' = steps + 1 /\ lastCall'.op = op

\* C1: toScreen(name) while name is the current screen returns false and
\* changes nothing: the observables, the navigation stack, the host history
\* stay as they were, and no hook runs (none is logged, no onRendered
\* callback is added).
C1_CurrentScreenIsNoOp ==
  [][(IsCall("toScreen") /\ lastCall'.name = currentScreen)
       => /\ lastResult' = "false"
          /\ UNCHANGED <<currentScreen, screenData, reactive, isLoading,
                         navStackLength, navStack, history, hpos, hookLog,
                         onRendered, renderPending>>]_vars

C1_Witness ==
  /\ lastCall.op = "toScreen"
  /\ lastCall.name = currentScreen
  /\ lastResult = "false"
  /\ navStack # <<>>

\* C2: toScreen(name) with a name that is not registered fails with an
\* error and leaves the current screen, the screen data, the content
\* helpers, the navigation stack and the host history unchanged.
C2_UnknownScreenFails ==
  [][(IsCall("toScreen") /\ ~Registered(lastCall'.name))
       => /\ lastResult' = "error"
          /\ UNCHANGED <<currentScreen, screenData, reactive, navStack,
                         navStackLength, history, hpos>>]_vars

C2_Witness ==
  /\ lastCall.op = "toScreen"
  /\ ~Registered(lastCall.name)
  /\ lastResult = "error"
  /\ currentScreen # "null"
  /\ screenData # EmptyObject

\* C3: for every committed transition to a screen n, once its content has
\* rendered, the global before hook, n's before hook, n's after hook and
\* the global after hook have each run exactly once, in that order, the
\* after hooks after the rendering.
C3_HooksOnceInOrder ==
  \A n \in ScreenNames :
    Hook("rendered", n) \in Range(hookLog)
      => hookLog = <<Hook("beforeScreens", n), Hook("before", n),
                     Hook("rendered", n), Hook("after", n),
                     Hook("afterScreens", n)>>

\* registerScreen must fail for this name and these options.
MustFail(name, o) ==
  \/ Registered(name)
  \/ (o.pathMask # NoPath
        /\ (~o.getDataFromParams \/ ~o.generatePath
              \/ o.pathPattern = NoPath))
  \/ (o.path # NoPath /\ o.pathPattern = NoPath)

\* C4: registerScreen fails when the name is registered already, when a
\* pathMask comes without getDataFromParams, generatePath or pathPattern,
\* or a path without pathPattern; a failed registration leaves the registry
\* and the routing table unchanged, and no two registered screens share a
\* name.
C4_RegistrationFailsCleanly ==
  [][IsCall("registerScreen")
       => /\ MustFail(lastCall'.name, lastCall'.options)
               => lastResult' = "error"
          /\ lastResult' = "error" => UNCHANGED <<screens, pathLookup>>
          /\ \A i, j \in 1..Len(screens') :
               screens'[i].name = screens'[j].name => i = j]_vars

C4_Witness ==
  /\ lastCall.op = "registerScreen"
  /\ lastCall.options = Catalogue[lastCall.name]
  /\ lastResult = "error"
  /\ Len(screens) = 2

\* C5: in app mode, back() with exactly one stack entry returns false and
\* leaves the stack unchanged; with two or more entries it removes exactly
\* the top entry, makes the screen of the new top the current screen and
\* returns true.
C5_BackPopsOne ==
  [][(IsCall("back") /\ inAppMode(config))
       => /\ Len(navStack) = 1
               => lastResult' = "false" /\ navStack' = navStack
          /\ Len(navStack) >= 2
               => /\ navStack' = SubSeq(navStack, 1, Len(navStack) - 1)
                  /\ currentScreen' = navStack'[Len(navStack')].name
                  /\ lastResult' = "true"]_vars

\* C6: in app mode, after resetNavStack(name) for a registered name, also
\* through toHome(), the navigation stack holds exactly one entry, which
\* names name, and name is the current screen.  (Stated for the states in
\* which no title computation is pending.)
C6_ResetLeavesOneEntry ==
  LET name == IF lastCall.op = "toHome" THEN "Home" ELSE lastCall.name
  IN (/\ lastCall.op \in {"resetNavStack", "toHome"}
      /\ inAppMode(config)
      /\ Registered(name)
      /\ titleComps = <<>>)
       => /\ Len(navStack) = 1
          /\ navStack[1].name = name
          /\ currentScreen = name

\* C7: after one call waitForCondition('okToLoad', f) with two arguments,
\* made while the okToLoad predicate returned false, f is invoked at most
\* once, and it has been invoked exactly once when the predicate has become
\* true and the recomputation has run.
C7_FiresOnceWhenReady ==
  LET made == {i \in 1..Len(waited) : waited[i].call = TwoArguments}
  IN (Cardinality(made) = 1 /\ \A i \in made : ~waited[i].satisfied)
       => /\ funcCalls[1] <= 1
          /\ (lastCall.op = "change" /\ lastCall.name = "okToLoad"
                /\ env.okToLoad) => funcCalls[1] = 1

\* The path of the cold start, and the routing entries it matches.
ColdPath == accountForTrailingSlash(config, history[1].path)

Matches ==
  {i \in 1..Len(pathLookup) : PatternTest(pathLookup[i].pathPattern, ColdPath)}

\* The screen the cold start resolves the path to.
Resolved ==
  FindWhere(screens,
            pathLookup[CHOOSE i \in Matches : \A j \in Matches : i <= j].name)[1]

\* C8: in a browser-mode cold start with a path that matches no entry of
\* the routing table, the run raises no error and ends with 'Not Found'
\* current.
C8_UnmatchedIsNotFound ==
  (lastCall.op = "run" /\ ~inAppMode(config) /\ Matches = {})
    => currentScreen = "Not Found" /\ lastResult # "error"

\* C9: in a browser-mode cold start whose path resolves to a screen whose
\* isAllowed is false or a function returning false, 'Access Denied'
\* becomes current; when isAllowed is true or was omitted the requested
\* screen is loaded (on a fresh tab: once okToLoad holds).  (Stated for
\* the applications that registered 'Access Denied', for paths without
\* parameters, and for a function isAllowed in an anonymous session.)
C9_AccessControl ==
  (/\ config.started
   /\ ~inAppMode(config)
   /\ Matches # {}
   /\ Registered("Access Denied"))
    => /\ (/\ lastCall.op = "run"
           /\ \/ Resolved.isAllowed = "false"
              \/ Resolved.isAllowed = "fnFalse" /\ ~env.userId)
            => currentScreen = "Access Denied"
       /\ (/\ Resolved.isAllowed = "true"
           /\ Resolved.pathMask = NoPath
           /\ ~history[1].hasState
           /\ lastCall.op = "change" /\ lastCall.name = "okToLoad"
           /\ env.okToLoad)
            => currentScreen = Resolved.name

\* C10: in a browser-mode cold start on a fresh tab, for the path of the
\* parameterized screen 'Profile', which is allowed: when okToLoad holds and
\* getDataFromParams has delivered its data, 'Profile' is current and the
\* screen data is the data delivered.
C10_ParameterizedColdStart ==
  (/\ lastCall.op = "dataCallback"
   /\ lastCall.name = "Profile"
   /\ ~inAppMode(config)
   /\ ~history[1].hasState
   /\ env.okToLoad)
    => currentScreen = "Profile" /\ screenData = Plain("42")

\* C11: in browser mode, a committed toScreen whose history update is not
\* suppressed appends exactly one host history entry: its name is the
\* target screen, its screenData is the screen data supplied to the call
\* (absent when none was supplied), and for a parameterized screen called
\* with data its path is generatePath(pathMask, params).
C11_HistoryRecordsNavigation ==
  [][(/\ IsCall("toScreen")
      /\ ~inAppMode(config)
      /\ lastResult' = "true"
      /\ lastCall'.options.shouldUpdateBrowserHistory # "false")
       => /\ hpos' = hpos + 1
          /\ history' = Append(SubSeq(history, 1, hpos), history'[hpos'])
          /\ history'[hpos'].name = lastCall'.name
          /\ history'[hpos'].screenData = lastCall'.options.screenData
          /\ (/\ FindWhere(screens, lastCall'.name)[1].pathMask # NoPath
              /\ Truthy(lastCall'.options.screenData))
               => history'[hpos'].path =
                    GeneratePath(FindWhere(screens, lastCall'.name)[1].pathMask,
                                 Params(lastCall'.options.screenData))]_vars

\* C12: in browser mode, a popstate event that carries state makes the
\* screen named in the state current, sets the screen data to the data
\* stored in the state (empty when none is stored) and pushes no history
\* entry; a popstate event without state changes nothing.
C12_PopstateRestores ==
  [][(IsCall("popstate") /\ config.listening)
       => IF history[hpos'].hasState
          THEN /\ currentScreen' = history[hpos'].name
               /\ screenData' = IF Truthy(history[hpos'].screenData)
                                THEN history[hpos'].screenData
                                ELSE EmptyObject
               /\ history' = history
          ELSE UNCHANGED <<currentScreen, screenData, reactive, navStack,
                           history, hookLog>>]_vars

\* C13: in an app-mode cold start (the navigation stack is empty), once the
\* gate of the session's home screen holds and the recomputation has run,
\* that screen is current: the public home for an anonymous session when
\* okToLoad holds, with the stack holding exactly that entry; the user home
\* for an identified session when the identity object is ready and
\* okToLoad holds.
C13_AppColdStartGated ==
  (/\ config.started
   /\ inAppMode(config)
   /\ lastCall.op = "change"
   /\ env.okToLoad)
    => /\ ~env.userId
            => /\ currentScreen = config.appModePublicHome
               /\ Len(navStack) = 1
               /\ navStack[1].name = config.appModePublicHome
       /\ (env.userId /\ env.userReady)
            => currentScreen = config.appModeUserHome

\* C14: after every committed toScreen the screen data is the screenData
\* of that call's options, or empty when none was supplied: data of the
\* previous screen does not remain.  This covers the calls the application
\* makes, the transitions of resetNavStack and toHome (no data supplied),
\* and those of the popstate listener (the data stored in the state).
C14_ScreenDataIsTheCallsData ==
  [][/\ (IsCall("toScreen") /\ lastResult' = "true")
          => screenData' = IF Truthy(lastCall'.options.screenData)
                           THEN lastCall'.options.screenData
                           ELSE EmptyObject
     /\ ((IsCall("resetNavStack") \/ IsCall("toHome"))
           /\ lastResult' = "true")
          => screenData' = EmptyObject
     /\ (IsCall("popstate") /\ currentScreen' # currentScreen)
          => screenData' = history[hpos'].screenData]_vars

C14_Witness ==
  /\ lastCall.op = "toScreen"
  /\ lastResult = "true"
  /\ ~Truthy(lastCall.options.screenData)
  /\ screenData = EmptyObject
  /\ \E i \in 1..Len(history) :
       history[i].hasState /\ history[i].screenData.v = "7"

\* C15: a toScreen call that fails leaves the content helpers, the screen
\* data, the current screen, the navigation stack and the host history as
\* they were before the call.
C15_FailedToScreenIsAtomic ==
  [][(IsCall("toScreen") /\ lastResult' = "error")
       => UNCHANGED <<reactive, screenData, currentScreen, navStack,
                      history, hpos>>]_vars

\* C16: in a transition both before hooks run before the screen data of the
\* new screen is set: each of them reads empty screen data.
C16_BeforeHooksSeeEmptyData ==
  \A i \in 1..Len(hookSaw) : hookSaw[i] = EmptyObject

\* The call of waitForCondition with a context argument.
WithContext == <<"okToLoad", 2, "false", "obj">>

\* C17: after one call of waitForCondition with a context, the waiting
\* function is invoked at most once, and once it has been invoked no
\* computation is left observing the condition.
C17_ContextFiresOnce ==
  (Len(waited) = 1 /\ waited[1].call = WithContext)
    => /\ funcCalls[2] <= 1
       /\ funcCalls[2] = 1 => comps = <<>>

\* C18: in a browser-mode cold start the resolved, allowed screen becomes
\* current only in a state in which its gate holds: okToReload when the
\* host's history state names that screen, okToLoad in every other case.
C18_ColdStartGated ==
  [][(/\ config'.started
      /\ ~inAppMode(config')
      /\ Matches' # {}
      /\ currentScreen' # currentScreen
      /\ currentScreen' = Resolved'.name
      /\ Resolved'.isAllowed \in {"true", "fnTrue"})
       => IF history'[1].hasState /\ history'[1].name = Resolved'.name
          THEN env'.okToReload
          ELSE env'.okToLoad]_vars

\* C19: in a browser-mode cold start for a path without parameters, access
\* control is evaluated at most once; a function isAllowed is never invoked
\* in an identified session whose identity object is not ready, has been
\* invoked once in an anonymous session, and has been invoked once in an
\* identified session when the identity object is ready; a boolean
\* isAllowed invokes nothing.
C19_AccessResolvedOnce ==
  (/\ config.started
   /\ ~inAppMode(config)
   /\ Matches # {}
   /\ Resolved.pathMask = NoPath)
    => /\ Len(accessLog) <= 1
       /\ \A i \in 1..Len(accessLog) : env.userId => accessLog[i].userReady
       /\ Resolved.isAllowed \in {"true", "false"} => accessLog = <<>>
       /\ (Resolved.isAllowed \in {"fnTrue", "fnFalse"} /\ ~env.userId)
            => Len(accessLog) = 1
       /\ (/\ Resolved.isAllowed \in {"fnTrue", "fnFalse"}
           /\ env.userId /\ env.userReady)
            => Len(accessLog) = 1

\* The result of exec for the cold start's path.
ColdExec ==
  PatternExec(pathLookup[CHOOSE i \in Matches : \A j \in Matches : i <= j]
                .pathPattern,
              ColdPath)

\* C20: in a browser-mode cold start, when the matched pattern yields
\* capture groups, run calls getDataFromParams, and until its callback has
\* fired access control is not evaluated and no screen is current; without
\* capture groups getDataFromParams is not called; when the callback
\* reports an error, an error is raised and the current screen, the screen
\* data and the host history are unchanged.
C20_DataBeforeAccessControl ==
  [][/\ (IsCall("run") /\ ~inAppMode(config') /\ Matches' # {})
          => IF Len(ColdExec') > 1
             THEN /\ Len(pendingData') = 1
                  /\ accessLog' = <<>>
                  /\ currentScreen' = "null"
             ELSE pendingData' = <<>>
     /\ (pendingData' # <<>> /\ ~inAppMode(config'))
          => accessLog' = <<>> /\ currentScreen' = "null"
     /\ IsCall("dataCallbackError")
          => /\ lastResult' = "error"
             /\ UNCHANGED <<currentScreen, screenData, reactive, navStack,
                            history, hpos, accessLog>>]_vars

C20_Witness ==
  /\ lastCall.op = "dataCallback"
  /\ pendingData = <<>>
  /\ Len(accessLog) = 1
  /\ currentScreen = "Profile"
  /\ screenData = Plain("42")

\* C21: in app mode, when run starts the app mode while the navigation
\* stack is not empty, the screen named by the top entry is current
\* afterwards, the stack is unchanged, and no error is raised.
C21_LiveReloadReenters ==
  [][(IsCall("run") /\ inAppMode(config) /\ navStack # <<>>)
       => /\ lastResult' # "error"
          /\ currentScreen' = navStack[Len(navStack)].name
          /\ navStack' = navStack]_vars

\* C22: in app mode, a committed toScreen to a screen with a string title
\* appends one stack entry that names the screen and holds the screen data
\* supplied to the call (none when none was supplied); a back() that
\* re-enters a screen sets the screen data to the data stored in its entry.
C22_StackHoldsTheData ==
  [][/\ (/\ IsCall("toScreen")
         /\ inAppMode(config)
         /\ lastResult' = "true"
         /\ FindWhere(screens, lastCall'.name)[1].title = "str")
          => /\ navStack' = Append(navStack, navStack'[Len(navStack')])
             /\ navStack'[Len(navStack')].name = lastCall'.name
             /\ navStack'[Len(navStack')].screenData
                  = lastCall'.options.screenData
     /\ (IsCall("back") /\ inAppMode(config) /\ Len(navStack) >= 2
           /\ currentScreen' # currentScreen)
          => screenData' =
               IF Truthy(navStack[Len(navStack) - 1].screenData)
               THEN navStack[Len(navStack) - 1].screenData
               ELSE EmptyObject]_vars

\* C23: when back() uses the navigation stack (supportUrls is off) and the
\* stack has fewer than two entries, back() returns false and leaves the
\* stack and the current screen unchanged.
C23_BackKeepsTheLastEntry ==
  [][(IsCall("back") /\ ~config.supportUrls /\ Len(navStack) < 2)
       => /\ lastResult' = "false"
          /\ UNCHANGED <<navStack, currentScreen>>]_vars

\* C24: between operations the nav-stack-length observable equals the
\* number of entries of the navigation stack.
C24_LengthIsPublished ==
  navStackLength = Len(navStack)

\* The two waits of C25: the earlier one waits for okToLoad with the
\* function 1, the later one for okToReload with the function 2.
Earlier == <<"okToLoad", 1, "false", Undef>>

Later == <<"okToReload", 2, "true", Undef>>

TwoWaits ==
  /\ Len(waited) = 2
  /\ waited[1] = [call |-> Earlier, satisfied |-> FALSE]
  /\ waited[2] = [call |-> Later, satisfied |-> FALSE]

C26_LoadingWhilePending ==
  isLoading = (\E i \in 1..Len(comps) : comps[i].showLoading = "true")

\* C27: in app mode no operation writes the host's history.
C27_AppModeLeavesHistory ==
  [][inAppMode(config) => UNCHANGED <<history, hpos>>]_vars

\* The screen n is registered with an isAllowed that is false or a function
\* returning false.
Denied(n) ==
  /\ Registered(n)
  /\ FindWhere(screens, n)[1].isAllowed \in {"false", "fnFalse"}

\* C28 as stated: in every reachable state the current screen is not a
\* denied screen.
C28_NoDeniedScreenIsCurrent ==
  ~Denied(currentScreen)

\* C28, amended: access control guards the cold start in browser mode
\* only.  No step of a browser-mode cold start (run, the data callback, a
\* recomputation of a wait) makes a denied screen current; toScreen does
\* not look at isAllowed.
C28_ColdStartNeverEntersDenied ==
  [][(/\ ~inAppMode(config')
      /\ \/ IsCall("run")
         \/ IsCall("dataCallback")
         \/ IsCall("dataCallbackError")
         \/ IsCall("change"))
       => (currentScreen' # currentScreen => ~Denied(currentScreen'))]_vars

C28_Witness ==
  /\ lastCall.op = "run"
  /\ ~inAppMode(config)
  /\ Matches # {}
  /\ Denied(Resolved.name)
  /\ currentScreen = "Access Denied"

\* C29: in app mode, after toScreen calls with default options, back(),
\* resetNavStack() and toHome(), and with no title computation pending,
\* the navigation stack is not empty when a screen is current, and its top
\* entry names the current screen.
C29_TopIsCurrent ==
  (inAppMode(config) /\ titleComps = <<>> /\ currentScreen # "null")
    => navStack # <<>> /\ navStack[Len(navStack)].name = currentScreen

\* C30: in browser mode, after a cold start whose gates hold (okToLoad and
\* okToReload) and whose data callback has fired without error, when the
\* host's current history entry carries state, the screen it names is the
\* current screen.  (Stated for the applications that registered 'Not
\* Found' and 'Access Denied'.)
C30_EntryNamesCurrent ==
  (/\ config.started
   /\ ~inAppMode(config)
   /\ Registered("Not Found") /\ Registered("Access Denied")
   /\ env.okToLoad /\ env.okToReload
   /\ pendingData = <<>>
   /\ lastCall.op # "dataCallbackError"
   /\ history[hpos].hasState)
    => currentScreen = history[hpos].name

====
